---- MODULE Spec2Model ----
(***************************************************************************)
(* Model of the ProbLabs waitlist backend (src/main.py, src/models.py):    *)
(* lead capture (POST /leads) behind its per-IP rate limiter, the nurture  *)
(* scheduler (process_nurture_emails), the signed unsubscribe link and the *)
(* read-only routes, all working against one shared relational store.      *)
(*                                                                         *)
(* Tables are bags of rows, so that a duplicate row is representable and   *)
(* uniqueness is something the handlers have to establish.  Every SQL      *)
(* statement followed by its commit is one atomic step.  A call to the     *)
(* email API or to the CAPTCHA service touches no table, so it is taken    *)
(* together with the statement that follows it; its outcome is chosen      *)
(* nondeterministically.  Database statements themselves are assumed not   *)
(* to fail.                                                                *)
(***************************************************************************)
EXTENDS Integers, Sequences, FiniteSets, Bags, TLC

(* ---------------------------------------------------------------------- *)
(* Bounds of the model                                                     *)
(* ---------------------------------------------------------------------- *)
MaxEmailLen == 2
MaxHandlers == 2
MaxRuns == 2
MaxBatch == 2
MaxSecs == 0
MaxOverlapLen == 1
MaxRlMax == 2
MaxRlWindow == 2
MaxRlSecs == 3
MaxAttempts == 5

(* ---------------------------------------------------------------------- *)
(* Strings are sequences of characters                                     *)
(* ---------------------------------------------------------------------- *)
Chars == {"a", "A", " "}

RECURSIVE StringsUpTo(_)
StringsUpTo(n) ==
    IF n = 0 THEN {<<>>}
    ELSE LET S == StringsUpTo(n - 1)
         IN  S \cup {Append(s, c) : s \in {t \in S : Len(t) = n - 1}, c \in Chars}

\* str.lower()
lower(s) == [i \in DOMAIN s |-> IF s[i] = "A" THEN "a" ELSE s[i]]

\* str.strip(): drop leading and trailing whitespace
RECURSIVE lstrip(_)
lstrip(s) == IF s # <<>> /\ Head(s) = " " THEN lstrip(Tail(s)) ELSE s

RECURSIVE rstrip(_)
rstrip(s) ==
    IF s # <<>> /\ s[Len(s)] = " " THEN rstrip(SubSeq(s, 1, Len(s) - 1)) ELSE s

strip(s) == rstrip(lstrip(s))

\* the address is lower-cased but not trimmed
NormalizeEmail_LowerOnly(raw) == lower(raw)

\* create_lead: email = payload.email.lower().strip()
NormalizeEmail(raw) == strip(lower(raw))

\* LeadIn.email is an EmailStr: a non-blank address without inner whitespace
LeadIn ==
    {s \in StringsUpTo(MaxEmailLen) :
        /\ strip(s) # <<>>
        /\ \A i \in DOMAIN strip(s) : strip(s)[i] # " "}

\* LeadIn.turnstile_token: Optional[str]; None is read as ""
Tokens == {<<>>, <<" ">>, <<"a">>}

(* ---------------------------------------------------------------------- *)
(* Time in seconds.  The clock visits the instants of the nurture         *)
(* schedule: the first seconds, just past day 3, just past day 7           *)
(* ---------------------------------------------------------------------- *)
SecondsPerDay == 86400
days(n) == n * SecondsPerDay

Instants == (0 .. MaxSecs) \cup {days(3) + 1, days(7) + 1}

EventTypes == {"welcome", "day3", "day7"}

Handlers == 1 .. MaxHandlers
Runs == 1 .. MaxRuns

VARIABLES
    leads,                  \* table leads: bag of [email, created_at]
    email_events,           \* table email_events: bag of [email, event_type]
    email_unsubscribes,     \* table email_unsubscribes: bag of [email, unsubscribed_at]
    now,                    \* wall clock / NOW()
    ENABLE_NURTURE_EMAILS,  \* environment, fixed at start-up
    NURTURE_BATCH_LIMIT,    \* environment, fixed at start-up
    UNSUBSCRIBE_SECRET,     \* environment, fixed at start-up
    hs,                     \* one create_lead invocation per handler
    rs,                     \* one process_nurture_emails invocation per run;
                            \* last: how its latest send call ended
    delivered,              \* the sends the email API accepted: bag of
                            \* [email, event_type]
    _ip_hits,               \* dict ip -> list of the times of the counted hits
    LEADS_RL_MAX,           \* environment, fixed at start-up
    LEADS_RL_WINDOW_SEC,    \* environment, fixed at start-up
    attempts,               \* the rate-limit checks made so far, in order:
                            \* [ip, at, status]
    response                \* the latest answer of GET /unsubscribe or of a
                            \* read-only route: [route, request, status, body]

dbVars == <<leads, email_events, email_unsubscribes>>
envVars == <<ENABLE_NURTURE_EMAILS, NURTURE_BATCH_LIMIT, UNSUBSCRIBE_SECRET>>
rlVars == <<_ip_hits, LEADS_RL_MAX, LEADS_RL_WINDOW_SEC, attempts>>
vars == <<leads, email_events, email_unsubscribes, now, ENABLE_NURTURE_EMAILS,
          NURTURE_BATCH_LIMIT, UNSUBSCRIBE_SECRET, hs, rs, delivered,
          _ip_hits, LEADS_RL_MAX, LEADS_RL_WINDOW_SEC, attempts, response>>

(* ---------------------------------------------------------------------- *)
(* Table helpers                                                           *)
(* ---------------------------------------------------------------------- *)
Rows(tbl) == BagToSet(tbl)

\* number of rows of tbl among the row values in S
CountIn(tbl, S) == BagCardinality([r \in (S \cap Rows(tbl)) |-> tbl[r]])

EventRows(e, t) == {r \in Rows(email_events) : r.email = e /\ r.event_type = t}
UnsubRows(e) == {r \in Rows(email_unsubscribes) : r.email = e}

\* the insert never sees the row that is already there
LeadConflict_Never(tbl, email) == FALSE

\* Lead.email is CITEXT with unique=True: the key compares case-insensitively
\* INSERT INTO leads ... ON CONFLICT (email) DO NOTHING RETURNING email
LeadConflict(tbl, email) == \E r \in Rows(tbl) : lower(r.email) = lower(email)

\* ON CONFLICT (email) DO UPDATE SET created_at = NOW()
InsertLead_Upsert(tbl, email, t) ==
    SetToBag({r \in Rows(tbl) : lower(r.email) # lower(email)})
        (+) SetToBag({[email |-> email, created_at |-> t]})

\* INSERT INTO leads (email) VALUES (:email) ON CONFLICT (email) DO NOTHING
InsertLead(tbl, email, t) ==
    IF LeadConflict(tbl, email) THEN tbl
    ELSE tbl (+) SetToBag({[email |-> email, created_at |-> t]})

\* a plain INSERT, as if the unique key were missing
_record_email_event_NoConflict(tbl, email, event_type, t) ==
    tbl (+) SetToBag({[email |-> email, event_type |-> event_type]})

\* _record_email_event: INSERT ... ON CONFLICT (email, event_type) DO NOTHING
_record_email_event(tbl, email, event_type, t) ==
    IF \E r \in Rows(tbl) : r.email = email /\ r.event_type = event_type THEN tbl
    ELSE tbl (+) SetToBag({[email |-> email, event_type |-> event_type]})

\* the event is recorded whether or not the send call returned
RecordIfSent_Always(tbl, email, event_type, outcome, t) ==
    _record_email_event(tbl, email, event_type, t)

\* the statement after the send call inside the try block (lines 562-563,
\* 578-579, 708-712): it runs only when the call returned
RecordIfSent(tbl, email, event_type, outcome, t) ==
    IF outcome = "ok" THEN _record_email_event(tbl, email, event_type, t) ELSE tbl

\* mark_unsubscribed: INSERT ... ON CONFLICT (email) DO NOTHING
mark_unsubscribed(tbl, email, t) ==
    IF \E r \in Rows(tbl) : r.email = email THEN tbl
    ELSE tbl (+) SetToBag({[email |-> email, unsubscribed_at |-> t]})

\* is_unsubscribed: SELECT email FROM email_unsubscribes WHERE email = :email
is_unsubscribed(tbl, email) == \E r \in Rows(tbl) : r.email = email

(* ---------------------------------------------------------------------- *)
(* Unsubscribe signature                                                   *)
(* ---------------------------------------------------------------------- *)
Secrets == {"", "k"}

\* hmac.new(key, msg, sha256).hexdigest(): an injective digest of (key, msg),
\* written in lower-case hex
HexDigest(key, msg) == [key |-> key, msg |-> msg, upper |-> FALSE, pad |-> FALSE]

\* the empty string, as a signature
NoSig == [key |-> "", msg |-> <<>>, upper |-> FALSE, pad |-> FALSE]

\* _unsub_sig
_unsub_sig(secret, email) ==
    IF secret = "" THEN NoSig ELSE HexDigest(secret, lower(strip(email)))

\* (sig or "").strip().lower()
SigNormal(sig) == [sig EXCEPT !.upper = FALSE, !.pad = FALSE]

(* ---------------------------------------------------------------------- *)
(* The email API (resend) and the CAPTCHA service (Turnstile)              *)
(* ---------------------------------------------------------------------- *)
\* what a send call does: it returns, or raises an exception with a message
SendOutcomes == {"ok", "timeout", "429 Too Many Requests"}

\* no failure is taken for a rate limit
_is_rate_limit_error_Never(msg) == FALSE

\* every failure is taken for a rate limit
_is_rate_limit_error_Any(msg) == TRUE

\* _is_rate_limit_error: "too many requests", "rate limit" or "429" in str(exc)
_is_rate_limit_error(msg) == msg = "429 Too Many Requests"

\* what verify_turnstile does: {"success": true}, {"success": false}, or raises
Verdicts == {"success", "failure", "raises"}

Sent(email, event_type) == SetToBag({[email |-> email, event_type |-> event_type]})

(* ---------------------------------------------------------------------- *)
(* Initial state                                                           *)
(* ---------------------------------------------------------------------- *)
IdleHandler ==
    [pc |-> "idle", payload |-> <<>>, email |-> <<>>, admin |-> FALSE,
     turnstile |-> "none", status |-> 0, inserted |-> FALSE, email_sent |-> FALSE,
     email_error |-> "None", skipped_unsubscribed |-> FALSE]

IdleRun ==
    [pc |-> "idle", enabled |-> FALSE, now_utc |-> 0,
     day3_emails |-> <<>>, day7_emails |-> <<>>, i |-> 1,
     sent_day3 |-> 0, sent_day7 |-> 0, errors |-> 0,
     stopped_early |-> FALSE, stop_reason |-> "None", last |-> "None"]

\* no answer yet
NoResponse ==
    [route |-> "none", request |-> [email |-> <<>>, sig |-> NoSig], status |-> 0,
     body |-> <<>>]

Init ==
    /\ leads = EmptyBag
    /\ email_events = EmptyBag
    /\ email_unsubscribes = EmptyBag
    /\ now = 0
    /\ ENABLE_NURTURE_EMAILS \in BOOLEAN
    /\ NURTURE_BATCH_LIMIT \in 1 .. MaxBatch
    /\ UNSUBSCRIBE_SECRET \in Secrets
    /\ hs = [h \in Handlers |-> IdleHandler]
    /\ rs = [r \in Runs |-> IdleRun]
    /\ delivered = EmptyBag
    /\ _ip_hits = <<>>
    /\ LEADS_RL_MAX \in 1 .. MaxRlMax
    /\ LEADS_RL_WINDOW_SEC \in 1 .. MaxRlWindow
    /\ attempts = <<>>
    /\ response = NoResponse

(* ---------------------------------------------------------------------- *)
(* The clock                                                               *)
(* ---------------------------------------------------------------------- *)
Tick ==
    /\ \E t \in Instants : t > now /\ now' = t
    /\ UNCHANGED <<dbVars, envVars, hs, rs, delivered, rlVars, response>>

(* ---------------------------------------------------------------------- *)
(* POST /leads: create_lead                                                *)
(* ---------------------------------------------------------------------- *)
\* the request is over: the response is kept
Respond(st, status) == [st EXCEPT !.pc = "done", !.status = status]

\* what the request presented to the Turnstile gate
Presented(token, admin, verdict) ==
    IF admin THEN "none" ELSE IF strip(token) = <<>> THEN "missing" ELSE verdict

\* fail open: a raising verification call lets the request through
TurnstileGate_FailOpen(token, admin, verdict) ==
    IF admin THEN 0
    ELSE IF strip(token) = <<>> THEN 400
    ELSE IF verdict = "failure" THEN 403
    ELSE 0

\* lines 664-682: 0 when the request may go on, else the status it ends with:
\* 400 without a token, 403 when Turnstile says no, 500 when verify_turnstile
\* raises (nothing catches it)
TurnstileGate(token, admin, verdict) ==
    IF admin THEN 0
    ELSE IF strip(token) = <<>> THEN 400
    ELSE IF verdict = "raises" THEN 500
    ELSE IF verdict = "failure" THEN 403
    ELSE 0

\* lines 662-696: normalise the email, Turnstile unless the admin key is valid,
\* then INSERT ... ON CONFLICT DO NOTHING RETURNING email; commit
CreateLeadInsert(h, payload_email, token, admin, verdict) ==
    /\ hs[h].pc = "idle"
    /\ LET email == NormalizeEmail(payload_email)
           st == [hs[h] EXCEPT !.payload = payload_email, !.email = email,
                               !.admin = admin,
                               !.turnstile = Presented(token, admin, verdict)]
           rejected == TurnstileGate(token, admin, verdict)
           inserted == ~LeadConflict(leads, email)
       IN  IF rejected # 0
           THEN /\ leads' = leads
                /\ hs' = [hs EXCEPT ![h] = Respond(st, rejected)]
           ELSE /\ leads' = InsertLead(leads, email, now)
                /\ hs' = [hs EXCEPT ![h] =
                            IF inserted
                            THEN [st EXCEPT !.pc = "check_unsub", !.inserted = TRUE]
                            ELSE Respond(st, 200)]
    /\ UNCHANGED <<email_events, email_unsubscribes, now, envVars, rs, delivered, rlVars, response>>

\* lines 702-705: if unsubscribed, do not send any emails
CreateLeadCheckUnsub(h) ==
    /\ hs[h].pc = "check_unsub"
    /\ hs' = [hs EXCEPT ![h] =
                IF is_unsubscribed(email_unsubscribes, @.email)
                THEN Respond([@ EXCEPT !.skipped_unsubscribed = TRUE], 200)
                ELSE [@ EXCEPT !.pc = "send"]]
    /\ UNCHANGED <<dbVars, now, envVars, rs, delivered, rlVars, response>>

\* the exception of the send escapes the handler
WelcomeFailure_Propagates(st, outcome) == Respond(st, 500)

\* lines 714-724: the except branch: the error is kept for the response
WelcomeFailure(st, outcome) ==
    Respond([st EXCEPT !.email_sent = FALSE, !.email_error = outcome], 200)

\* lines 707-716: send_welcome_email, then record the welcome event; an
\* exception of the send is swallowed and nothing is recorded
CreateLeadSend(h, outcome) ==
    /\ hs[h].pc = "send"
    /\ IF outcome = "ok"
       THEN /\ delivered' = delivered (+) Sent(hs[h].email, "welcome")
            /\ email_events' = RecordIfSent(email_events, hs[h].email, "welcome", outcome, now)
            /\ hs' = [hs EXCEPT ![h] = Respond([@ EXCEPT !.email_sent = TRUE], 200)]
       ELSE /\ delivered' = delivered
            /\ email_events' = RecordIfSent(email_events, hs[h].email, "welcome", outcome, now)
            /\ hs' = [hs EXCEPT ![h] = WelcomeFailure(@, outcome)]
    /\ UNCHANGED <<leads, email_unsubscribes, now, envVars, rs, rlVars, response>>

\* the worker is free for the next request
CreateLeadReturn(h) ==
    /\ hs[h].pc = "done"
    /\ hs' = [hs EXCEPT ![h] = IdleHandler]
    /\ UNCHANGED <<dbVars, now, envVars, rs, delivered, rlVars, response>>

\* the steps of a request once the lead row is decided
create_lead(h) ==
    \/ CreateLeadCheckUnsub(h)
    \/ \E o \in SendOutcomes : CreateLeadSend(h, o)

(* ---------------------------------------------------------------------- *)
(* GET /unsubscribe                                                        *)
(* ---------------------------------------------------------------------- *)
\* an unsigned link passes when the server has no secret
UnsubscribeStatus_Unsigned(secret, email, sig) ==
    LET em == lower(strip(email))
        expected == _unsub_sig(secret, em)
    IN  IF em = <<>> THEN 400
        ELSE IF expected # SigNormal(sig) THEN 403
        ELSE 200

\* lines 633-639: the HTTP status of the answer: 400 "Missing email",
\* 403 "Invalid signature", else 200
UnsubscribeStatus(secret, email, sig) ==
    LET em == lower(strip(email))
        expected == _unsub_sig(secret, em)
    IN  IF em = <<>> THEN 400
        ELSE IF expected = NoSig \/ expected # SigNormal(sig) THEN 403
        ELSE 200

unsubscribe(email, sig) ==
    /\ email_unsubscribes' =
          IF UnsubscribeStatus(UNSUBSCRIBE_SECRET, email, sig) = 200
          THEN mark_unsubscribed(email_unsubscribes, lower(strip(email)), now)
          ELSE email_unsubscribes
    /\ UNCHANGED <<leads, email_events, now, envVars, hs, rs, delivered, rlVars>>

\* the query parameters a client can send: any string as the email; as the
\* signature nothing, or the digest of an address under the server's key or
\* under another key, as it is or in upper case or padded with whitespace
UnsubscribeEmails == StringsUpTo(MaxEmailLen)

SigInputs ==
    {NoSig} \cup
    {[key |-> k, msg |-> m, upper |-> u, pad |-> p] :
        k \in {"k", "x"}, m \in {<<"a">>, <<"a", "a">>}, u \in BOOLEAN, p \in BOOLEAN}

\* GET /unsubscribe as its client sees it: the handler and the answer
UnsubscribeRequest(email, sig) ==
    /\ unsubscribe(email, sig)
    /\ response' = [route |-> "unsubscribe",
                    request |-> [email |-> email, sig |-> sig],
                    status |-> UnsubscribeStatus(UNSUBSCRIBE_SECRET, email, sig),
                    body |-> <<>>]

(* ---------------------------------------------------------------------- *)
(* Nurture scheduler                                                       *)
(* ---------------------------------------------------------------------- *)
\* the query without its join on email_unsubscribes
DueLeads_IgnoreUnsub(ls, evs, uns, event_type, cutoff) ==
    {l \in Rows(ls) :
        /\ l.created_at <= cutoff
        /\ ~\E e \in Rows(evs) : e.email = l.email /\ e.event_type = event_type}

\* leads l LEFT JOIN email_events e LEFT JOIN email_unsubscribes u
\* WHERE l.created_at <= :cutoff AND e.email IS NULL AND u.email IS NULL
DueLeads(ls, evs, uns, event_type, cutoff) ==
    {l \in Rows(ls) :
        /\ l.created_at <= cutoff
        /\ ~\E e \in Rows(evs) : e.email = l.email /\ e.event_type = event_type
        /\ ~\E u \in Rows(uns) : u.email = l.email}

\* ORDER BY l.created_at ASC: every order the sort may return (ties are free)
RECURSIVE OrderByCreatedAt(_)
OrderByCreatedAt(S) ==
    IF S = {} THEN {<<>>}
    ELSE UNION {{<<m>> \o rest : rest \in OrderByCreatedAt(S \ {m})} :
                  m \in {l \in S : \A k \in S : l.created_at <= k.created_at}}

\* LIMIT :lim
Limit(seq, lim) == SubSeq(seq, 1, IF Len(seq) < lim THEN Len(seq) ELSE lim)

\* one of the two SELECTs of _get_due_nurture_emails, as the list of r[0]
DueQuery(ls, evs, uns, event_type, cutoff, lim) ==
    {[i \in DOMAIN Limit(q, lim) |-> Limit(q, lim)[i].email] :
        q \in OrderByCreatedAt(DueLeads(ls, evs, uns, event_type, cutoff))}

\* the day-3 loop starts as soon as one day-7 candidate is done
Advance_Day3Early(st, pc, i) ==
    IF pc = "day7" /\ i <= 1 /\ i <= Len(st.day7_emails) THEN [st EXCEPT !.pc = "day7", !.i = i]
    ELSE IF pc = "day7" /\ st.day3_emails # <<>> THEN [st EXCEPT !.pc = "day3", !.i = 1]
    ELSE IF pc = "day3" /\ i <= Len(st.day3_emails) THEN [st EXCEPT !.pc = "day3", !.i = i]
    ELSE [st EXCEPT !.pc = "done", !.i = 1]

\* where the run stands after the candidate at position i of its stage is done
Advance(st, pc, i) ==
    IF pc = "day7" /\ i <= Len(st.day7_emails) THEN [st EXCEPT !.pc = "day7", !.i = i]
    ELSE IF pc = "day7" /\ st.day3_emails # <<>> THEN [st EXCEPT !.pc = "day3", !.i = 1]
    ELSE IF pc = "day3" /\ i <= Len(st.day3_emails) THEN [st EXCEPT !.pc = "day3", !.i = i]
    ELSE [st EXCEPT !.pc = "done", !.i = 1]

\* lines 537-540, 492-510: the enabled switch, now_utc, the day-7 query
RunSelectDay7(r) ==
    /\ rs[r].pc = "idle"
    /\ IF ~ENABLE_NURTURE_EMAILS
       THEN rs' = [rs EXCEPT ![r] = [@ EXCEPT !.pc = "done", !.enabled = FALSE]]
       ELSE \E q \in DueQuery(leads, email_events, email_unsubscribes, "day7",
                              now - days(7), NURTURE_BATCH_LIMIT) :
               rs' = [rs EXCEPT ![r] = [@ EXCEPT !.pc = "select3", !.enabled = TRUE,
                                                  !.now_utc = now, !.day7_emails = q]]
    /\ UNCHANGED <<dbVars, now, envVars, hs, delivered, rlVars, response>>

\* lines 513-531: the day-3 query
RunSelectDay3(r) ==
    /\ rs[r].pc = "select3"
    /\ \E q \in DueQuery(leads, email_events, email_unsubscribes, "day3",
                         rs[r].now_utc - days(3), NURTURE_BATCH_LIMIT) :
          rs' = [rs EXCEPT ![r] = Advance([@ EXCEPT !.day3_emails = q], "day7", 1)]
    /\ UNCHANGED <<dbVars, now, envVars, hs, delivered, rlVars, response>>

\* lines 560-573 (stage day7), 576-589 (stage day3): one pass of the loop body:
\* the send call, then the event and the counter, or else the except branch
RunSend(r, stage, outcome) ==
    /\ rs[r].pc = stage
    /\ LET st == rs[r]
           email == IF stage = "day7" THEN st.day7_emails[st.i] ELSE st.day3_emails[st.i]
           tried == [st EXCEPT !.last = outcome]
       IN  IF outcome = "ok"
           THEN /\ delivered' = delivered (+) Sent(email, stage)
                /\ email_events' = RecordIfSent(email_events, email, stage, outcome, now)
                /\ rs' = [rs EXCEPT ![r] =
                            Advance(IF stage = "day7"
                                    THEN [tried EXCEPT !.sent_day7 = @ + 1]
                                    ELSE [tried EXCEPT !.sent_day3 = @ + 1],
                                    stage, st.i + 1)]
           ELSE /\ delivered' = delivered
                /\ email_events' = RecordIfSent(email_events, email, stage, outcome, now)
                /\ rs' = [rs EXCEPT ![r] =
                            LET failed == [tried EXCEPT !.errors = @ + 1]
                            IN  IF _is_rate_limit_error(outcome)
                                THEN [failed EXCEPT
                                        !.pc = "done", !.i = 1,
                                        !.stopped_early = TRUE,
                                        !.stop_reason =
                                            IF stage = "day7" THEN "rate_limited_day7"
                                            ELSE "rate_limited_day3"]
                                ELSE Advance(failed, stage, st.i + 1)]
    /\ UNCHANGED <<leads, email_unsubscribes, now, envVars, hs, rlVars, response>>

\* line 599: the summary is returned; the slot serves the next trigger
RunReturn(r) ==
    /\ rs[r].pc = "done"
    /\ rs' = [rs EXCEPT ![r] = IdleRun]
    /\ UNCHANGED <<dbVars, now, envVars, hs, delivered, rlVars, response>>

process_nurture_emails(r) ==
    \/ RunSelectDay7(r)
    \/ RunSelectDay3(r)
    \/ \E stage \in {"day7", "day3"}, o \in SendOutcomes : RunSend(r, stage, o)
    \/ RunReturn(r)

\* the addresses the email API refuses every time (a mailbox that bounces);
\* a send to any other address is accepted
Undeliverable == {<<"a">>}

SendOutcomeTo(email) == IF email \in Undeliverable THEN "timeout" ELSE "ok"

\* the loop body when the outcome of a send depends on the address alone
RunSendTo(r, stage) ==
    /\ rs[r].pc = stage
    /\ RunSend(r, stage,
               SendOutcomeTo(IF stage = "day7" THEN rs[r].day7_emails[rs[r].i]
                             ELSE rs[r].day3_emails[rs[r].i]))

\* process_nurture_emails with such sends
NurtureRun(r) ==
    \/ RunSelectDay7(r)
    \/ RunSelectDay3(r)
    \/ \E stage \in {"day7", "day3"} : RunSendTo(r, stage)
    \/ RunReturn(r)

(* ---------------------------------------------------------------------- *)
(* Read-only routes: GET /leads/count and the admin routes                 *)
(* ---------------------------------------------------------------------- *)
\* require_admin_key: 500 when ADMIN_API_KEY is not configured, 401 when the
\* X-Admin-Key header is missing or wrong, 0 when the request may go on
AdminAuth == {"unconfigured", "unauthorized", "ok"}

require_admin_key(auth) ==
    IF auth = "unconfigured" THEN 500 ELSE IF auth = "unauthorized" THEN 401 ELSE 0

Reverse(seq) == [i \in DOMAIN seq |-> seq[Len(seq) + 1 - i]]

\* SELECT email, created_at FROM leads ORDER BY created_at DESC
LeadsNewestFirst(ls) == {Reverse(q) : q \in OrderByCreatedAt(Rows(ls))}

\* admin_stats: days = 30, the window of the daily counts
StatsDays == 30

DayOf(t) == t \div SecondsPerDay

\* admin_stats: the leads of the last 30 days counted per day, and COUNT(*)
Stats(ls, t) ==
    LET end_day == DayOf(t)
        start_day == end_day - (StatsDays - 1)
        daily == [i \in 1 .. StatsDays |->
                    CountIn(ls, {l \in Rows(ls) : DayOf(l.created_at) = start_day + i - 1})]
        in_range == {l \in Rows(ls) : /\ DayOf(l.created_at) >= start_day
                                      /\ DayOf(l.created_at) <= end_day}
    IN  [total_30d |-> CountIn(ls, in_range),
         total_all |-> BagCardinality(ls),
         today_count |-> daily[StatsDays]]

ReadRoutes == {"leads_count", "admin_leads", "admin_leads_csv", "admin_stats"}

\* the answer of a read-only route; leads_count is public
ReadBodies(route) ==
    IF route = "leads_count" THEN {<<[count |-> BagCardinality(leads)]>>}
    ELSE IF route = "admin_stats" THEN {<<Stats(leads, now)>>}
    ELSE LeadsNewestFirst(leads)

AdminRead(route, auth) ==
    /\ LET denied == IF route = "leads_count" THEN 0 ELSE require_admin_key(auth)
       IN  IF denied # 0
           THEN response' = [route |-> route, request |-> NoResponse.request,
                             status |-> denied, body |-> <<>>]
           ELSE \E b \in ReadBodies(route) :
                   response' = [route |-> route, request |-> NoResponse.request,
                                status |-> 200, body |-> b]
    /\ UNCHANGED <<dbVars, now, envVars, hs, rs, delivered, rlVars>>

(* ---------------------------------------------------------------------- *)
(* Rate limiting of POST /leads (per instance): rate_limit_leads           *)
(* ---------------------------------------------------------------------- *)
\* request.client is None, or its host is empty, or it names the peer
Hosts == {"None", "", "10.0.0.1"}

\* ip = (request.client.host if request.client else "unknown") or "unknown"
ClientIp(host) == IF host \in {"None", ""} THEN "unknown" ELSE host

\* _ip_hits.get(ip, [])
HitsOf(ip) == IF ip \in DOMAIN _ip_hits THEN _ip_hits[ip] ELSE <<>>

\* hits = [t for t in hits if t >= window_start]
InWindow(hits, window_start) == SelectSeq(hits, LAMBDA t : t >= window_start)

\* one hit more than the limit gets through
RateLimited_OneOver(hits, max) == Len(hits) > max

\* if len(hits) >= LEADS_RL_MAX: raise HTTPException(status_code=429)
RateLimited(hits, max) == Len(hits) >= max

\* the dependency of create_lead that runs before its body; one check at a
\* time.  Status 0: the request goes on to the handler.
rate_limit_leads(host) ==
    /\ Len(attempts) < MaxAttempts
    /\ LET ip == ClientIp(host)
           window_start == now - LEADS_RL_WINDOW_SEC
           hits == InWindow(HitsOf(ip), window_start)
       IN  IF RateLimited(hits, LEADS_RL_MAX)
           THEN /\ _ip_hits' = _ip_hits
                /\ attempts' = Append(attempts, [ip |-> ip, at |-> now, status |-> 429])
           ELSE /\ _ip_hits' = [x \in DOMAIN _ip_hits \cup {ip} |->
                                  IF x = ip THEN Append(hits, now) ELSE _ip_hits[x]]
                /\ attempts' = Append(attempts, [ip |-> ip, at |-> now, status |-> 0])
    /\ UNCHANGED <<dbVars, now, envVars, hs, rs, delivered,
                   LEADS_RL_MAX, LEADS_RL_WINDOW_SEC, response>>

\* time.time() moves on by a second
TickSecond ==
    /\ now < MaxRlSecs
    /\ now' = now + 1
    /\ UNCHANGED <<dbVars, envVars, hs, rs, delivered, rlVars, response>>

(* ---------------------------------------------------------------------- *)
(* Specifications                                                          *)
(* ---------------------------------------------------------------------- *)
\* the links of the email footers (build_unsubscribe_url), and forged ones
FooterLinks ==
    {[email |-> NormalizeEmail(p), sig |-> HexDigest(k, NormalizeEmail(p))] :
        p \in LeadIn, k \in {"k", "x"}}

\* verified signups of already normalised addresses of at most n characters
\* (handler h), and the footer links of those addresses
Signups(h, n) ==
    \E p \in {q \in LeadIn : NormalizeEmail(q) = q /\ Len(q) <= n}, v \in Verdicts :
        CreateLeadInsert(h, p, <<"a">>, FALSE, v)

Unsubscribes(n) ==
    /\ \E q \in {l \in FooterLinks : Len(l.email) <= n} : unsubscribe(q.email, q.sig)
    /\ UNCHANGED response

\* the whole service with one nurture trigger at a time: signups served one
\* after the other by one worker, nurture runs one after the other,
\* unsubscribe requests and the passing of time
Next ==
    \/ Tick
    \/ Signups(1, MaxEmailLen)
    \/ create_lead(1)
    \/ CreateLeadReturn(1)
    \/ Unsubscribes(MaxEmailLen)
    \/ process_nurture_emails(1)

\* the rate limiter stands before the signups and is left out of the
\* specifications of the store: its switches are fixed there
InitService ==
    /\ Init
    /\ LEADS_RL_MAX = MaxRlMax
    /\ LEADS_RL_WINDOW_SEC = MaxRlWindow

Spec == InitService /\ [][Next]_vars

\* the same service with overlapping nurture runs
NextOverlap ==
    \/ Tick
    \/ Signups(1, MaxOverlapLen)
    \/ create_lead(1)
    \/ CreateLeadReturn(1)
    \/ Unsubscribes(MaxOverlapLen)
    \/ \E r \in Runs : process_nurture_emails(r)

SpecOverlap == InitService /\ [][NextOverlap]_vars

\* the signup path: concurrent create_lead invocations on any payload, each
\* kept with its response, next to unsubscribe requests.  The nurture switches
\* play no part in it.
InitSignup ==
    /\ InitService
    /\ ~ENABLE_NURTURE_EMAILS
    /\ NURTURE_BATCH_LIMIT = 1

NextSignup ==
    \/ \E h \in Handlers :
          \/ \E p \in LeadIn, tok \in Tokens, admin \in BOOLEAN, v \in Verdicts :
                CreateLeadInsert(h, p, tok, admin, v)
          \/ create_lead(h)
    \/ Unsubscribes(MaxEmailLen)

SpecSignup == InitSignup /\ [][NextSignup]_vars

\* the life of a lead row: signups and repeated signups, unsubscribe
\* requests, nurture runs and the read-only routes, as time passes
NextLeads ==
    \/ Tick
    \/ Signups(1, MaxOverlapLen)
    \/ create_lead(1)
    \/ CreateLeadReturn(1)
    \/ Unsubscribes(MaxOverlapLen)
    \/ process_nurture_emails(1)
    \/ \E route \in ReadRoutes, auth \in AdminAuth : AdminRead(route, auth)

SpecLeads == InitService /\ [][NextLeads]_vars

\* the service with a nurture trigger that fires again and again, each run
\* running to its end, and a mailbox that bounces
NextNurture ==
    \/ Tick
    \/ Signups(1, MaxEmailLen)
    \/ create_lead(1)
    \/ CreateLeadReturn(1)
    \/ Unsubscribes(MaxEmailLen)
    \/ NurtureRun(1)

SpecNurture == InitService /\ [][NextNurture]_vars /\ WF_vars(NurtureRun(1))

\* the unsubscribe link alone: any request, at any time
NextUnsubscribe ==
    \/ Tick
    \/ \E email \in UnsubscribeEmails, sig \in SigInputs : UnsubscribeRequest(email, sig)

InitUnsubscribe ==
    /\ InitService
    /\ ~ENABLE_NURTURE_EMAILS
    /\ NURTURE_BATCH_LIMIT = 1

SpecUnsubscribe == InitUnsubscribe /\ [][NextUnsubscribe]_vars

\* the rate limiter alone: checks from several clients, second after second
NextRateLimit ==
    \/ TickSecond
    \/ \E host \in Hosts : rate_limit_leads(host)

\* the switches of the nurture scheduler and of the unsubscribe link play no
\* part in it
InitRateLimit ==
    /\ Init
    /\ ~ENABLE_NURTURE_EMAILS
    /\ NURTURE_BATCH_LIMIT = 1
    /\ UNSUBSCRIBE_SECRET = ""

SpecRateLimit == InitRateLimit /\ [][NextRateLimit]_vars

(* ---------------------------------------------------------------------- *)
(* Vocabulary of the properties                                            *)
(* ---------------------------------------------------------------------- *)
Range(seq) == {seq[i] : i \in DOMAIN seq}

\* the addresses a row can carry
Emails == {NormalizeEmail(p) : p \in LeadIn}

EventKey(e, t) == [email |-> e, event_type |-> t]

\* the event rows this step adds
NewEvents == {x \in Rows(email_events') : CopiesIn(x, email_events') > CopiesIn(x, email_events)}

(* ---------------------------------------------------------------------- *)
(* C1: over the whole history the email API accepts at most one day3 send  *)
(* and at most one day7 send per address, however nurture runs repeat or   *)
(* overlap.                                                                *)
(* ---------------------------------------------------------------------- *)
C1_AtMostOneNurtureSend ==
    \A e \in Emails, t \in {"day3", "day7"} : CopiesIn(EventKey(e, t), delivered) <= 1

(* ---------------------------------------------------------------------- *)
(* C2: no step adds an EmailEvent row for an address whose Unsubscribe     *)
(* row already exists.                                                     *)
(* ---------------------------------------------------------------------- *)
C2_NoEventAfterUnsubscribe ==
    [][\A x \in NewEvents : ~is_unsubscribed(email_unsubscribes, x.email)]_vars

(* ---------------------------------------------------------------------- *)
(* C3: email_events holds at most one row per (email, event_type), also    *)
(* when overlapping runs record the same pair.                             *)
(* ---------------------------------------------------------------------- *)
C3_UniqueEmailEvent ==
    \A e \in Emails, t \in EventTypes : CountIn(email_events, EventRows(e, t)) <= 1

\* two runs sent the same stage to the same address and both recorded it
C3_Witness ==
    \E e \in Emails, t \in {"day3", "day7"} :
        /\ CopiesIn(EventKey(e, t), delivered) >= 2
        /\ CountIn(email_events, EventRows(e, t)) = 1

(* ---------------------------------------------------------------------- *)
(* Addresses, read independently of the code's normalisation               *)
(* ---------------------------------------------------------------------- *)
\* first and last position of p that is not whitespace (p is not blank)
CoreStart(p) == CHOOSE i \in DOMAIN p : p[i] # " " /\ \A k \in 1 .. i - 1 : p[k] = " "
CoreEnd(p) == CHOOSE j \in DOMAIN p : p[j] # " " /\ \A k \in j + 1 .. Len(p) : p[k] = " "

SameLetter(c, d) == c = d \/ {c, d} = {"a", "A"}

\* p and q differ only in letter case or surrounding whitespace
SameAddress(p, q) ==
    /\ CoreEnd(p) - CoreStart(p) = CoreEnd(q) - CoreStart(q)
    /\ \A k \in 0 .. CoreEnd(p) - CoreStart(p) :
          SameLetter(p[CoreStart(p) + k], q[CoreStart(q) + k])

\* e is trimmed and lower-case
IsNormalForm(e) ==
    /\ e # <<>>
    /\ e[1] # " " /\ e[Len(e)] # " "
    /\ \A i \in DOMAIN e : e[i] # "A"

\* the request of handler h passed verification and ran its INSERT
Accepted(h) ==
    \/ hs[h].pc \in {"check_unsub", "send"}
    \/ hs[h].pc = "done" /\ hs[h].status = 200

LeadsOf(p) == {x \in Rows(leads) : SameAddress(x.email, p)}

(* ---------------------------------------------------------------------- *)
(* C4: every stored lead email is trimmed and lower-case, no two Lead rows *)
(* differ only in case or surrounding whitespace, and every accepted       *)
(* signup finds exactly one Lead row for its address, whatever its         *)
(* spelling.                                                               *)
(* ---------------------------------------------------------------------- *)
C4_OneLeadPerNormalizedEmail ==
    /\ \A r \in Rows(leads) :
          IsNormalForm(r.email) /\ CountIn(leads, LeadsOf(r.email)) = 1
    /\ \A h \in Handlers : Accepted(h) => CountIn(leads, LeadsOf(hs[h].payload)) = 1

\* two accepted signups spelt differently, one of them not normalised, share a row
C4_Witness ==
    \E h, g \in Handlers :
        /\ hs[h].pc = "done" /\ hs[g].pc = "done"
        /\ hs[h].status = 200 /\ hs[g].status = 200
        /\ hs[h].payload # hs[g].payload
        /\ SameAddress(hs[h].payload, hs[g].payload)
        /\ ~IsNormalForm(hs[h].payload)
        /\ hs[h].inserted /\ ~hs[g].inserted
        /\ CountIn(leads, LeadsOf(hs[h].payload)) = 1

(* ---------------------------------------------------------------------- *)
(* C5: among the accepted signups of one address exactly one has           *)
(* inserted=true; a signup with inserted=false attempts no welcome send    *)
(* and its step leaves leads, email_events, email_unsubscribes and the     *)
(* sent mail unchanged; at most one welcome send is attempted per address. *)
(* ---------------------------------------------------------------------- *)
SameSignups(h) == {g \in Handlers : Accepted(g) /\ SameAddress(hs[g].payload, hs[h].payload)}

TriedWelcome(h) == hs[h].email_sent \/ hs[h].email_error # "None"

C5_Responses ==
    \A h \in Handlers :
        Accepted(h) =>
            /\ Cardinality({g \in SameSignups(h) : hs[g].inserted}) = 1
            /\ Cardinality({g \in SameSignups(h) : TriedWelcome(g)}) <= 1
            /\ ~hs[h].inserted => ~TriedWelcome(h) /\ hs[h].pc = "done"
            /\ CopiesIn(EventKey(hs[h].email, "welcome"), delivered) <= 1

C5_NoSideEffect ==
    \A h \in Handlers :
        hs[h].pc = "idle" /\ hs'[h].pc = "done" /\ hs'[h].status = 200 /\ ~hs'[h].inserted
            => UNCHANGED <<leads, email_events, email_unsubscribes, delivered>>

C5_InsertedOnce == []C5_Responses /\ [][C5_NoSideEffect]_vars

\* a second signup of an address, spelt differently, got inserted=false
C5_Witness ==
    \E h, g \in Handlers :
        /\ h # g
        /\ hs[h].pc = "done" /\ hs[h].status = 200 /\ hs[h].inserted
        /\ hs[g].pc = "done" /\ hs[g].status = 200 /\ ~hs[g].inserted
        /\ SameAddress(hs[g].payload, hs[h].payload)

(* ---------------------------------------------------------------------- *)
(* C6: a step adds an EmailEvent row for (E, T) only together with a send  *)
(* for (E, T) that the email API accepted; a send that raised leaves       *)
(* email_events as it was, so every row stands for an accepted send.       *)
(* ---------------------------------------------------------------------- *)
C6_Rows == \A x \in Rows(email_events) : CopiesIn(x, delivered) >= 1

C6_Step == \A x \in NewEvents : CopiesIn(x, delivered') = CopiesIn(x, delivered) + 1

C6_RecordOnlyAfterSend == []C6_Rows /\ [][C6_Step]_vars

\* a welcome send and a nurture send have failed and left no row, next to a
\* recorded one
C6_Witness ==
    /\ hs[1].pc = "done" /\ hs[1].email_error # "None"
    /\ CountIn(email_events, EventRows(hs[1].email, "welcome")) = 0
    /\ rs[1].pc = "done" /\ rs[1].errors = 1 /\ rs[1].last = "timeout"
    /\ rs[1].day7_emails # <<>>
    /\ CountIn(email_events, EventRows(rs[1].day7_emails[Len(rs[1].day7_emails)], "day7")) = 0
    /\ email_events # EmptyBag

(* ---------------------------------------------------------------------- *)
(* C7: the day-N list a run selects is exactly the first L leads, oldest   *)
(* first, among the leads created at or before now - N days that have no   *)
(* EmailEvent(dayN) and no Unsubscribe row; so a lead created at c is on   *)
(* the day-3 list and not on the day-7 list at now = c + 3d1s, and on the  *)
(* day-7 list at now = c + 7d1s, unless it is excluded or beyond the cap.  *)
(* ---------------------------------------------------------------------- *)
CreatedAt(e) == (CHOOSE l \in Rows(leads) : l.email = e).created_at

IsDue(e, t, cutoff) ==
    /\ \E l \in Rows(leads) : l.email = e /\ l.created_at <= cutoff
    /\ CountIn(email_events, EventRows(e, t)) = 0
    /\ CountIn(email_unsubscribes, UnsubRows(e)) = 0

DueCount(t, cutoff) == Cardinality({e \in Emails : IsDue(e, t, cutoff)})

FirstDue(list, t, cutoff, L) ==
    /\ \A i, j \in DOMAIN list : i # j => list[i] # list[j]
    /\ \A i \in DOMAIN list : IsDue(list[i], t, cutoff)
    /\ Len(list) = IF DueCount(t, cutoff) < L THEN DueCount(t, cutoff) ELSE L
    /\ \A i, j \in DOMAIN list : i < j => CreatedAt(list[i]) <= CreatedAt(list[j])
    /\ \A e \in Emails :
          IsDue(e, t, cutoff) /\ e \notin Range(list)
              => \A i \in DOMAIN list : CreatedAt(list[i]) <= CreatedAt(e)

\* the lead rows that are exactly n days and one second old at time t
AgedOneSecondPast(n, t) == {l \in Rows(leads) : t = l.created_at + days(n) + 1}

C7_Day7Query(r) ==
    rs[r].pc = "idle" /\ rs'[r].pc = "select3" =>
        /\ rs'[r].now_utc = now
        /\ FirstDue(rs'[r].day7_emails, "day7", now - days(7), NURTURE_BATCH_LIMIT)
        /\ \A l \in AgedOneSecondPast(3, now) : l.email \notin Range(rs'[r].day7_emails)
        /\ \A l \in AgedOneSecondPast(7, now) :
              IsDue(l.email, "day7", now) /\ DueCount("day7", now - days(7)) <= NURTURE_BATCH_LIMIT
                  => l.email \in Range(rs'[r].day7_emails)

C7_Day3Query(r) ==
    rs[r].pc = "select3" /\ rs'[r].pc # "select3" =>
        /\ FirstDue(rs'[r].day3_emails, "day3", rs[r].now_utc - days(3), NURTURE_BATCH_LIMIT)
        /\ \A l \in AgedOneSecondPast(3, rs[r].now_utc) \cup AgedOneSecondPast(7, rs[r].now_utc) :
              /\ IsDue(l.email, "day3", rs[r].now_utc)
              /\ DueCount("day3", rs[r].now_utc - days(3)) <= NURTURE_BATCH_LIMIT
              => l.email \in Range(rs'[r].day3_emails)

C7_DueSelection == [][\A r \in Runs : C7_Day7Query(r) /\ C7_Day3Query(r)]_vars

\* at now = c + 3d1s a run has put a lead on its day-3 list and not on its
\* day-7 list, while the cap kept another due lead off the list
C7_Witness ==
    /\ rs[1].pc = "day3" /\ rs[1].i = 1 /\ rs[1].sent_day3 = 0 /\ rs[1].errors = 0
    /\ rs[1].day7_emails = <<>>
    /\ Len(rs[1].day3_emails) = NURTURE_BATCH_LIMIT
    /\ \E l \in AgedOneSecondPast(3, rs[1].now_utc) : l.email = rs[1].day3_emails[1]
    /\ \E e \in Emails :
          e \notin Range(rs[1].day3_emails) /\ IsDue(e, "day3", rs[1].now_utc - days(3))

(* ---------------------------------------------------------------------- *)
(* C8: a send that fails without a rate-limit signature adds one to the    *)
(* error counter and the run moves on to the next candidate of the stage,  *)
(* then to the next stage, so that a run not stopped early has attempted   *)
(* every candidate; a failure with a rate-limit signature ends the stage.  *)
(* ---------------------------------------------------------------------- *)
StageList(st) == IF st.pc = "day7" THEN st.day7_emails ELSE st.day3_emails

MovesOn(s, t) ==
    /\ t.day7_emails = s.day7_emails /\ t.day3_emails = s.day3_emails
    /\ IF s.i < Len(StageList(s)) THEN t.pc = s.pc /\ t.i = s.i + 1
       ELSE IF s.pc = "day7" /\ s.day3_emails # <<>> THEN t.pc = "day3" /\ t.i = 1
       ELSE t.pc = "done"

C8_Step ==
    \A r \in Runs :
        rs[r].pc \in {"day7", "day3"} /\ rs'[r] # rs[r] =>
            /\ rs'[r].last = "timeout" =>
                  /\ rs'[r].errors = rs[r].errors + 1
                  /\ ~rs'[r].stopped_early
                  /\ MovesOn(rs[r], rs'[r])
            /\ rs'[r].last = "429 Too Many Requests" =>
                  /\ rs'[r].errors = rs[r].errors + 1
                  /\ rs'[r].stopped_early
                  /\ rs'[r].pc = "done"
                  /\ UNCHANGED <<email_events, delivered>>

C8_Done ==
    \A r \in Runs :
        rs[r].pc = "done" /\ ~rs[r].stopped_early =>
            rs[r].sent_day7 + rs[r].sent_day3 + rs[r].errors
                = Len(rs[r].day7_emails) + Len(rs[r].day3_emails)

C8_ContinueAfterFailure == []C8_Done /\ [][C8_Step]_vars

\* the first day-7 send failed, the second day-7 send and the day-3 sends
\* were still made
C8_Witness ==
    /\ rs[1].pc = "done" /\ ~rs[1].stopped_early
    /\ Len(rs[1].day7_emails) = 2 /\ rs[1].day3_emails # <<>>
    /\ rs[1].errors = 1 /\ rs[1].sent_day7 = 1
    /\ rs[1].sent_day3 = Len(rs[1].day3_emails)
    /\ CopiesIn(EventKey(rs[1].day7_emails[1], "day7"), delivered) = 0
    /\ CopiesIn(EventKey(rs[1].day7_emails[2], "day7"), delivered) = 1

(* ---------------------------------------------------------------------- *)
(* C9: a signup that inserted its lead and whose welcome send failed       *)
(* answers 200 with inserted=true, email_sent=false and email_error set;   *)
(* the Lead row stays and no EmailEvent(welcome) exists for the address.   *)
(* ---------------------------------------------------------------------- *)
WelcomeFailed(h) ==
    /\ hs[h].pc = "done" /\ hs[h].inserted /\ ~hs[h].skipped_unsubscribed
    /\ CopiesIn(EventKey(hs[h].email, "welcome"), delivered) = 0

C9_Response ==
    \A h \in Handlers :
        WelcomeFailed(h) =>
            /\ hs[h].status = 200
            /\ ~hs[h].email_sent
            /\ hs[h].email_error \in SendOutcomes \ {"ok"}
            /\ CountIn(leads, LeadsOf(hs[h].payload)) = 1
            /\ CountIn(email_events, EventRows(hs[h].email, "welcome")) = 0

C9_Step ==
    \A h \in Handlers :
        hs[h].pc = "send" /\ hs'[h].pc = "done" /\ delivered' = delivered =>
            /\ hs'[h].status = 200 /\ hs'[h].inserted
            /\ UNCHANGED <<leads, email_events, email_unsubscribes>>

C9_SignupSurvivesSendFailure == []C9_Response /\ [][C9_Step]_vars

C9_Witness ==
    \E h \in Handlers :
        /\ WelcomeFailed(h)
        /\ hs[h].email_error = "timeout"
        /\ CountIn(leads, LeadsOf(hs[h].payload)) = 1

(* ---------------------------------------------------------------------- *)
(* C10: a request without a valid admin key gets its Lead row and its      *)
(* welcome send only if Turnstile reported success; a missing token, a     *)
(* reported failure or a raising verification call ends the request with   *)
(* leads, email_events, email_unsubscribes and the sent mail unchanged.    *)
(* As claimed, all three end as VerificationFailed (400 or 403); in the    *)
(* code the raising call ends as an unhandled error, status 500.           *)
(* ---------------------------------------------------------------------- *)
C10_OnlyVerified ==
    \A h \in Handlers :
        ~hs[h].admin /\ (Accepted(h) \/ hs[h].inserted \/ TriedWelcome(h))
            => hs[h].turnstile = "success"

Unverified(h) ==
    /\ hs[h].pc = "idle" /\ hs'[h].pc # "idle"
    /\ ~hs'[h].admin
    /\ hs'[h].turnstile \in {"missing", "failure", "raises"}

C10_RejectedStep(statuses) ==
    \A h \in Handlers :
        Unverified(h) =>
            /\ hs'[h].pc = "done"
            /\ hs'[h].status = statuses[hs'[h].turnstile]
            /\ ~hs'[h].inserted /\ ~TriedWelcome(h)'
            /\ UNCHANGED <<leads, email_events, email_unsubscribes, delivered>>

\* the claim as stated: every rejection is a VerificationFailed
C10_AlwaysVerificationFailed ==
    /\ []C10_OnlyVerified
    /\ [][\E st \in [{"missing", "failure", "raises"} -> {400, 403}] :
             C10_RejectedStep(st)]_vars

\* the claim as amended: a raising verification call ends as status 500
C10_FailsClosed ==
    /\ []C10_OnlyVerified
    /\ [][C10_RejectedStep([missing |-> 400, failure |-> 403, raises |-> 500])]_vars

\* one request was refused because the verification call raised, another
\* was verified and got its lead and its welcome mail
C10_Witness ==
    \E h, g \in Handlers :
        /\ hs[h].pc = "done" /\ ~hs[h].admin /\ hs[h].turnstile = "raises"
        /\ hs[h].status = 500
        /\ CountIn(leads, LeadsOf(hs[h].payload)) = 0
        /\ hs[g].pc = "done" /\ ~hs[g].admin /\ hs[g].turnstile = "success"
        /\ hs[g].inserted /\ hs[g].email_sent

(* ---------------------------------------------------------------------- *)
(* C11: for each client IP at most LEADS_RL_MAX checks are admitted within *)
(* any window of LEADS_RL_WINDOW_SEC seconds; a check made when            *)
(* LEADS_RL_MAX checks of its IP were admitted within the last window is   *)
(* answered 429 and leaves the counted hits as they were.                  *)
(* ---------------------------------------------------------------------- *)
\* the admitted checks of ip made at a time in [lo, hi]
AdmittedIn(log, ip, lo, hi) ==
    {i \in DOMAIN log :
        /\ log[i].ip = ip /\ log[i].status # 429
        /\ lo <= log[i].at /\ log[i].at <= hi}

C11_Window ==
    \A i \in DOMAIN attempts : \A t \in 0 .. MaxRlSecs :
        Cardinality(AdmittedIn(attempts, attempts[i].ip, t, t + LEADS_RL_WINDOW_SEC))
            <= LEADS_RL_MAX

C11_Step ==
    Len(attempts') = Len(attempts) + 1 =>
        LET a == attempts'[Len(attempts')]
        IN  Cardinality(AdmittedIn(attempts, a.ip, now - LEADS_RL_WINDOW_SEC, now))
                >= LEADS_RL_MAX
            => a.status = 429 /\ _ip_hits' = _ip_hits /\ a.at = now

C11_RollingWindow == []C11_Window /\ [][C11_Step]_vars

\* a client used up its two hits, was refused exactly one window after the
\* first of them, and was admitted again later; another client was served
\* meanwhile
C11_Witness ==
    /\ LEADS_RL_MAX = 2
    /\ \E i, j, k, m \in DOMAIN attempts :
          /\ i < j /\ j < k
          /\ attempts[i].ip = attempts[k].ip /\ attempts[j].ip = attempts[k].ip
          /\ attempts[m].ip # attempts[k].ip /\ attempts[m].status = 0
          /\ attempts[i].status = 0
          /\ Cardinality(AdmittedIn(attempts, attempts[i].ip, attempts[i].at, attempts[j].at)) = 2
          /\ attempts[j].status = 429
          /\ attempts[j].at = attempts[i].at + LEADS_RL_WINDOW_SEC
          /\ attempts[k].status = 0

(* ---------------------------------------------------------------------- *)
(* C12: an unsubscribe request whose signature is not the keyed hash of    *)
(* the normalised email under the server secret is rejected and adds no    *)
(* Unsubscribe row; one with the matching signature leaves exactly one row *)
(* for the address, and a row once written keeps its unsubscribed_at.      *)
(* As claimed, the rejection is a 400; in the code it is a 403, a blank    *)
(* email is a 400, the signature is compared after trimming and lower-     *)
(* casing, and without a server secret every request is rejected.          *)
(* ---------------------------------------------------------------------- *)
Blank(p) == \A i \in DOMAIN p : p[i] = " "

\* the trimmed lower-case spelling of a non-blank p
NormalOf(p) == CHOOSE e \in StringsUpTo(Len(p)) : IsNormalForm(e) /\ SameAddress(e, p)

\* the signature is the digest h, whatever its letter case and padding
SameSig(sig, h) == sig.key = h.key /\ sig.msg = h.msg

\* this step is the request that response' answers
UnsubscribeStep ==
    /\ response'.route = "unsubscribe"
    /\ response' # response \/ email_unsubscribes' # email_unsubscribes

\* nothing is written
C12_Rejected(status) ==
    /\ response'.status = status
    /\ email_unsubscribes' = email_unsubscribes

\* the rows that were there stay as they are, and the address has its one row
C12_Served(e) ==
    /\ response'.status = 200
    /\ \A x \in Rows(email_unsubscribes) :
          CopiesIn(x, email_unsubscribes') = CopiesIn(x, email_unsubscribes)
    /\ \A x \in Rows(email_unsubscribes') :
          x \in Rows(email_unsubscribes) \/ (x.email = e /\ x.unsubscribed_at = now)
    /\ \E x \in Rows(email_unsubscribes') : x.email = e

C12_OneRow ==
    \A x, y \in Rows(email_unsubscribes) :
        x.email = y.email => x = y /\ CopiesIn(x, email_unsubscribes) = 1

SendsOf(bag, t) == CountIn(bag, {x \in Rows(bag) : x.event_type = t})

C13_Step ==
    \A r \in Runs :
        /\ rs[r].pc # "day3" /\ rs'[r].pc = "day3" =>
              /\ rs'[r].sent_day7 + rs'[r].errors = Len(rs'[r].day7_emails)
              /\ rs'[r].sent_day3 = 0
              /\ ~rs'[r].stopped_early
        /\ rs[r].pc = "day7" /\ rs'[r] # rs[r] =>
              /\ rs'[r].sent_day3 = 0
              /\ SendsOf(delivered', "day3") = SendsOf(delivered, "day3")
        /\ rs[r].pc = "day3" /\ rs'[r] # rs[r] =>
              /\ rs'[r].pc \in {"day3", "done"}
              /\ rs'[r].sent_day7 = rs[r].sent_day7
              /\ SendsOf(delivered', "day7") = SendsOf(delivered, "day7")

C13_Day7BeforeDay3 == [][C13_Step]_vars

\* a run is in its day-3 loop with one day-3 mail sent, after two day-7
\* candidates of which the first failed
C13_Witness ==
    /\ rs[1].pc = "day3" /\ rs[1].i = 2 /\ rs[1].sent_day3 = 1
    /\ Len(rs[1].day7_emails) = 2
    /\ rs[1].sent_day7 = 1 /\ rs[1].errors = 1
    /\ CopiesIn(EventKey(rs[1].day7_emails[1], "day7"), delivered) = 0
    /\ CopiesIn(EventKey(rs[1].day3_emails[1], "day3"), delivered) = 1

(* ---------------------------------------------------------------------- *)
(* C14: Lead rows are only ever added, and only by a signup that passed    *)
(* verification: a row once written stays with its email and created_at,   *)
(* and every step that is not the INSERT of a signup (a repeated signup,   *)
(* an unsubscribe request, a step of a nurture run, a read-only route)     *)
(* leaves the leads table as it is.                                        *)
(* ---------------------------------------------------------------------- *)
\* handler h runs the INSERT of an accepted signup in this step
InsertsLead(h) ==
    /\ hs[h].pc = "idle" /\ hs'[h].pc # "idle"
    /\ hs'[h].inserted
    /\ hs'[h].admin \/ hs'[h].turnstile = "success"

C14_Step ==
    /\ \A x \in Rows(leads) : CopiesIn(x, leads') = CopiesIn(x, leads)
    /\ leads' # leads =>
          \E h \in Handlers :
              /\ InsertsLead(h)
              /\ leads' = leads (+) SetToBag({[email |-> hs'[h].email, created_at |-> now]})
    /\ (\A h \in Handlers : ~InsertsLead(h)) => leads' = leads
    /\ email_unsubscribes' # email_unsubscribes \/ rs' # rs \/ email_events' # email_events
          => leads' = leads

C14_LeadsAppendOnly == [][C14_Step]_vars

\* a lead written at the start is still there, with its created_at, at a
\* later time, after a nurture mail, its unsubscribe request, a repeated
\* signup and a listing by the admin
C14_Witness ==
    /\ \E x \in Rows(leads) :
          /\ x.created_at < now
          /\ is_unsubscribed(email_unsubscribes, x.email)
          /\ CountIn(email_events, EventRows(x.email, "day3")) = 1
          /\ hs[1].pc = "done" /\ hs[1].status = 200 /\ ~hs[1].inserted
          /\ hs[1].email = x.email
          /\ response.route = "admin_leads" /\ response.status = 200
          /\ response.body = <<x>>

(* ---------------------------------------------------------------------- *)
(* C15: with nurture enabled and runs made again and again, a lead that is *)
(* due for day3 (or day7), is not unsubscribed and whose own send the      *)
(* email API accepts eventually has its EmailEvent(day3) (or day7), or is  *)
(* unsubscribed before that, even when the sends to older leads fail on    *)
(* every run.                                                              *)
(* ---------------------------------------------------------------------- *)
StageDays(t) == IF t = "day3" THEN 3 ELSE 7

C15_DueLeadEventuallyServed ==
    \A e \in Emails \ Undeliverable : \A t \in {"day3", "day7"} :
        (ENABLE_NURTURE_EMAILS /\ IsDue(e, t, now - days(StageDays(t))))
            ~> (\/ CountIn(email_events, EventRows(e, t)) >= 1
                \/ CountIn(email_unsubscribes, UnsubRows(e)) >= 1)

(* ---------------------------------------------------------------------- *)
(* C16: when a day-7 send of a nurture run fails with a rate-limit         *)
(* signature the run makes no further send: the other day-7 candidates and *)
(* the day-3 batch are skipped, nothing is sent or recorded for day3, and  *)
(* the summary has stopped_early = true, stop_reason = rate_limited_day7   *)
(* and sent_day3 = 0.                                                      *)
(* ---------------------------------------------------------------------- *)
RateLimitedAtDay7(st) == st.pc = "done" /\ st.stop_reason = "rate_limited_day7"

C16_Step ==
    \A r \in Runs :
        /\ /\ rs[r].pc = "day7" /\ rs'[r] # rs[r]
           /\ rs'[r].last = "429 Too Many Requests"
           => /\ RateLimitedAtDay7(rs'[r])
              /\ rs'[r].stopped_early
              /\ rs'[r].sent_day3 = 0
              /\ rs'[r].sent_day7 = rs[r].sent_day7
              /\ rs'[r].errors = rs[r].errors + 1
              /\ UNCHANGED <<email_events, delivered>>
        /\ RateLimitedAtDay7(rs[r]) =>
              /\ rs'[r] \in {rs[r], IdleRun}
              /\ SendsOf(delivered', "day3") = SendsOf(delivered, "day3")
              /\ SendsOf(delivered', "day7") = SendsOf(delivered, "day7")
              /\ SendsOf(email_events', "day3") = SendsOf(email_events, "day3")

C16_Summary ==
    \A r \in Runs :
        RateLimitedAtDay7(rs[r]) =>
            /\ rs[r].stopped_early /\ rs[r].sent_day3 = 0
            /\ rs[r].last = "429 Too Many Requests"
            /\ rs[r].sent_day7 + rs[r].errors <= Len(rs[r].day7_emails)

C16_StopsAtDay7RateLimit == []C16_Summary /\ [][C16_Step]_vars

\* the first of two day-7 candidates was rate limited: the second and the
\* day-3 batch were skipped
C16_Witness ==
    /\ RateLimitedAtDay7(rs[1])
    /\ Len(rs[1].day7_emails) = 2 /\ rs[1].day3_emails # <<>>
    /\ rs[1].sent_day7 = 0 /\ rs[1].errors = 1 /\ rs[1].sent_day3 = 0
    /\ SendsOf(delivered, "day7") = 0 /\ SendsOf(delivered, "day3") = 0
    /\ SendsOf(email_events, "day3") = 0

====
